---- MODULE Spec2Model ----
(***************************************************************************)
(* Match/set scoring of the volleyball tracker.                            *)
(*                                                                         *)
(*   updateGameSet        src/src/firebase/FirestoreExample.ts:270-428     *)
(*   handleSetLineup,     src/src/App.tsx:1320-1605                        *)
(*   handleSetScore,                                                       *)
(*   handleSubstitution                                                    *)
(*   games list / modals  src/src/App.tsx:1784-1836, 2105-2421             *)
(*                                                                         *)
(* Optional values (score?, substitutions?, finalScore, null) are          *)
(* sequences of length 0 (absent) or 1 (present).  A player is identified  *)
(* by the shirt number (the key the code compares, player.number) and      *)
(* carries the rotationPosition; id, name, position and joinedAt are       *)
(* copied through by the code and are not modelled.                        *)
(***************************************************************************)
EXTENDS Integers, Sequences, FiniteSets, TLC

\* ------------------------------------------------------------------ bounds
\* Number of players on the team's roster (shirt numbers 1..RosterSize).
RosterSize == 7
\* Largest number of substitution events the user records in one match.
MaxSubs == 1
\* Largest number of times the user leaves a dialog by Cancel or X.
MaxCancels == 1
\* Set numbers that two clients update at the same time.
ConcurrentSets == 2
\* Largest number of points the user enters for one side of a set.
MaxPoints == 27

\* Games of one team, and the days they are played on.
MaxGames == 3
MaxDate == 3

\* --------------------------------------------------------------- constants
\* Players on court in a lineup (App.tsx:1321, the six selects of :2118).
LineupSize == 6
\* "A game must have at least 4 sets played" (FirestoreExample.ts:360).
MinSets == 4
\* Number of the tie-break set (FirestoreExample.ts:389, App.tsx:1419).
FifthSet == 5
\* Point thresholds of handleSetScore (App.tsx:1365, :1375).
RegularThreshold == 25
FifthThreshold == 15
\* Required winning margin (App.tsx:1369, :1379).
MinMargin == 2
\* Substitution cap shown by the UI (App.tsx:1809, :2271).
MaxSubstitutions == 6

\* ------------------------------------------------------------ option type
None == <<>>
Some(x) == <<x>>
IsSome(o) == o # <<>>
Get(o) == o[1]

Score(t, o) == [team |-> t, opponent |-> o]

\* ----------------------------------------------------------- updateGameSet
\* player.rotationPosition || 0, player.number || '' : a falsy value becomes
\* the default, any other value is kept.
SanitizePlayer(p) ==
  [number |-> IF p.number = 0 THEN 0 ELSE p.number,
   rotationPosition |-> IF p.rotationPosition = 0 THEN 0 ELSE p.rotationPosition]

SanitizeSub(sub) ==
  [outPlayer |-> SanitizePlayer(sub.outPlayer),
   inPlayer |-> SanitizePlayer(sub.inPlayer),
   currentScore |-> sub.currentScore]

\* sanitizedSet: the score only when the argument has one; the substitutions
\* array always, empty when the argument has none.
SanitizeSet(set) ==
  [number |-> set.number,
   lineup |-> [i \in 1..Len(set.lineup) |-> SanitizePlayer(set.lineup[i])],
   score |-> set.score,
   substitutions |->
     IF IsSome(set.substitutions)
       THEN [i \in 1..Len(Get(set.substitutions)) |->
               SanitizeSub(Get(set.substitutions)[i])]
       ELSE <<>>]

\* updatedSets.findIndex(s => s.number === n); 0 stands for -1.
FindIndex(sets, n) ==
  IF \E i \in 1..Len(sets) : sets[i].number = n
    THEN CHOOSE i \in 1..Len(sets) :
           /\ sets[i].number = n
           /\ \A j \in 1..(i - 1) : sets[j].number # n
    ELSE 0

\* Variant of MergeSet that never replaces: the set is always pushed.
MergeSetAlwaysPush(sets, sanitizedSet) == Append(sets, sanitizedSet)

\* "Find or add the set"
MergeSet(sets, sanitizedSet) ==
  LET setIndex == FindIndex(sets, sanitizedSet.number)
  IN IF setIndex >= 1
       THEN [sets EXCEPT ![setIndex] = sanitizedSet]
       ELSE Append(sets, sanitizedSet)

\* Variant of SortByNumber that leaves the order of the merge.
SortByNumberSkipped(sets) == sets

\* updatedSets.sort((a, b) => a.number - b.number), a stable sort.
RECURSIVE InsertByNumber(_, _)
InsertByNumber(sorted, s) ==
  IF sorted = <<>> THEN <<s>>
  ELSE IF sorted[Len(sorted)].number <= s.number THEN Append(sorted, s)
  ELSE Append(InsertByNumber(SubSeq(sorted, 1, Len(sorted) - 1), s),
              sorted[Len(sorted)])

RECURSIVE SortByNumber(_)
SortByNumber(sets) ==
  IF sets = <<>> THEN <<>>
  ELSE InsertByNumber(SortByNumber(SubSeq(sets, 1, Len(sets) - 1)),
                      sets[Len(sets)])

\* "Calculate sets won by each team"
RECURSIVE SetsWon(_)
SetsWon(sets) ==
  IF sets = <<>> THEN Score(0, 0)
  ELSE LET acc == SetsWon(SubSeq(sets, 1, Len(sets) - 1))
           currentSet == sets[Len(sets)]
       IN IF IsSome(currentSet.score)
            THEN IF Get(currentSet.score).team > Get(currentSet.score).opponent
                   THEN Score(acc.team + 1, acc.opponent)
                 ELSE IF Get(currentSet.score).opponent > Get(currentSet.score).team
                   THEN Score(acc.team, acc.opponent + 1)
                 ELSE acc
            ELSE acc

\* Variant of FifthSetWinner with the comparison turned round.
FifthSetWinnerSwapped(score) ==
  IF score.team < score.opponent THEN "team" ELSE "opponent"

\* const fifthSetWinner = score.team > score.opponent ? 'team' : 'opponent'
FifthSetWinner(score) ==
  IF score.team > score.opponent THEN "team" ELSE "opponent"

\* The finalScore of the fifth-set branch.
FifthSetFinalScore(setsWon, fifthSetWinner) ==
  Score(setsWon.team + (IF fifthSetWinner = "team" THEN 1 ELSE 0),
        setsWon.opponent + (IF fifthSetWinner = "opponent" THEN 1 ELSE 0))

\* Variant of DetermineOutcome that asks for more than 4 sets
\* (length > 4 in place of length >= 4).
DetermineOutcomeAfterFour(updatedSets, sanitizedSet) ==
  LET setsWon == SetsWon(updatedSets)
      undecided == [status |-> "in-progress", finalScore |-> None]
  IN IF Len(updatedSets) > MinSets
       THEN IF setsWon.team = 3 /\ setsWon.opponent = 1
              THEN [status |-> "win", finalScore |-> Some(Score(3, 1))]
            ELSE IF setsWon.team = 4 /\ setsWon.opponent = 0
              THEN [status |-> "win", finalScore |-> Some(Score(4, 0))]
            ELSE IF setsWon.opponent = 3 /\ setsWon.team = 1
              THEN [status |-> "loss", finalScore |-> Some(Score(1, 3))]
            ELSE IF setsWon.opponent = 4 /\ setsWon.team = 0
              THEN [status |-> "loss", finalScore |-> Some(Score(0, 4))]
            ELSE IF Len(updatedSets) = FifthSet /\ IsSome(sanitizedSet.score)
              THEN LET fifthSetWinner == FifthSetWinner(Get(sanitizedSet.score))
                   IN [status |->
                         IF fifthSetWinner = "team" THEN "win" ELSE "loss",
                       finalScore |->
                         Some(FifthSetFinalScore(setsWon, fifthSetWinner))]
            ELSE undecided
       ELSE undecided

\* Variant of DetermineOutcome whose last branch does not ask for 5 sets.
DetermineOutcomeLooseFifth(updatedSets, sanitizedSet) ==
  LET setsWon == SetsWon(updatedSets)
      undecided == [status |-> "in-progress", finalScore |-> None]
  IN IF Len(updatedSets) >= MinSets
       THEN IF setsWon.team = 3 /\ setsWon.opponent = 1
              THEN [status |-> "win", finalScore |-> Some(Score(3, 1))]
            ELSE IF setsWon.team = 4 /\ setsWon.opponent = 0
              THEN [status |-> "win", finalScore |-> Some(Score(4, 0))]
            ELSE IF setsWon.opponent = 3 /\ setsWon.team = 1
              THEN [status |-> "loss", finalScore |-> Some(Score(1, 3))]
            ELSE IF setsWon.opponent = 4 /\ setsWon.team = 0
              THEN [status |-> "loss", finalScore |-> Some(Score(0, 4))]
            ELSE IF IsSome(sanitizedSet.score)
              THEN LET fifthSetWinner == FifthSetWinner(Get(sanitizedSet.score))
                   IN [status |->
                         IF fifthSetWinner = "team" THEN "win" ELSE "loss",
                       finalScore |->
                         Some(FifthSetFinalScore(setsWon, fifthSetWinner))]
            ELSE undecided
       ELSE undecided

\* Variant of DetermineOutcome that ends the match as soon as one side has
\* won 3 sets, the rule of the earlier revisions.
DetermineOutcomeFirstToThree(updatedSets, sanitizedSet) ==
  LET setsWon == SetsWon(updatedSets)
  IN IF setsWon.team >= 3
       THEN [status |-> "win", finalScore |-> Some(setsWon)]
     ELSE IF setsWon.opponent >= 3
       THEN [status |-> "loss", finalScore |-> Some(setsWon)]
     ELSE [status |-> "in-progress", finalScore |-> None]

\* The status / finalScore decision on the merged, sorted collection.
DetermineOutcome(updatedSets, sanitizedSet) ==
  LET setsWon == SetsWon(updatedSets)
      undecided == [status |-> "in-progress", finalScore |-> None]
  IN IF Len(updatedSets) >= MinSets
       THEN IF setsWon.team = 3 /\ setsWon.opponent = 1
              THEN [status |-> "win", finalScore |-> Some(Score(3, 1))]
            ELSE IF setsWon.team = 4 /\ setsWon.opponent = 0
              THEN [status |-> "win", finalScore |-> Some(Score(4, 0))]
            ELSE IF setsWon.opponent = 3 /\ setsWon.team = 1
              THEN [status |-> "loss", finalScore |-> Some(Score(1, 3))]
            ELSE IF setsWon.opponent = 4 /\ setsWon.team = 0
              THEN [status |-> "loss", finalScore |-> Some(Score(0, 4))]
            ELSE IF Len(updatedSets) = FifthSet /\ IsSome(sanitizedSet.score)
              THEN LET fifthSetWinner == FifthSetWinner(Get(sanitizedSet.score))
                   IN [status |->
                         IF fifthSetWinner = "team" THEN "win" ELSE "loss",
                       finalScore |->
                         Some(FifthSetFinalScore(setsWon, fifthSetWinner))]
            ELSE undecided
       ELSE undecided

\* Variant of UpdateResult that returns the tally as finalScore of every
\* call, decided or not.
UpdateResultAlwaysTally(game, set) ==
  LET sanitizedSet == SanitizeSet(set)
      updatedSets == SortByNumber(MergeSet(game.sets, sanitizedSet))
      outcome == DetermineOutcome(updatedSets, sanitizedSet)
  IN [sets |-> updatedSets,
      status |-> outcome.status,
      finalScore |-> Some(SetsWon(updatedSets))]

\* The value updateGameSet returns for the stored game and the argument.
UpdateResult(game, set) ==
  LET sanitizedSet == SanitizeSet(set)
      updatedSets == SortByNumber(MergeSet(game.sets, sanitizedSet))
      outcome == DetermineOutcome(updatedSets, sanitizedSet)
  IN [sets |-> updatedSets,
      status |-> outcome.status,
      finalScore |-> outcome.finalScore]

\* updateDoc(gameRef, {sets, status, ...(finalScore && {finalScore})}):
\* the fields named are replaced, a field not named keeps its stored value.
UpdateDoc(game, result) ==
  [sets |-> result.sets,
   status |-> result.status,
   finalScore |-> IF IsSome(result.finalScore) THEN result.finalScore
                  ELSE game.finalScore]

\* ------------------------------------------------------------------- state
VARIABLES
  db,                    \* the stored game document: sets, status, finalScore
  games,                 \* App state: the game as the games list holds it
  selectedGame,          \* App state: "none" or the id of the selected game
  currentSetNumber,      \* App state
  currentLineup,         \* App state
  setScore,              \* App state
  selectedSet,           \* App state: None or the set the dialog was opened on
  substitution,          \* App state: outPlayer, inPlayer, currentScore
  showLineupModal,       \* App state
  showSetScoreModal,     \* App state
  showSubstitutionModal, \* App state
  cancels,               \* number of dialogs left by Cancel or X so far
  pending,               \* per client: its updateGameSet call between read and write
  teamGames,             \* StatsPage: the games handed to calculateCurrentStreak
  streak,                \* StatsPage: None or the value calculateCurrentStreak returned
  op,                    \* history: the handler that ran last, "ui" for others
  arg,                   \* history: argument of the last updateGameSet call
  ret,                   \* history: value the last updateGameSet call returned
  same                   \* history: the last call repeated the argument before it

appVars == <<games, selectedGame, currentSetNumber, currentLineup, setScore,
             selectedSet, substitution, showLineupModal, showSetScoreModal,
             showSubstitutionModal>>
histVars == <<op, arg, ret, same>>
statVars == <<teamGames, streak>>
vars == <<db, appVars, cancels, pending, statVars, histVars>>

\* The document createGame stores (App.tsx:1290-1298): no sets, in progress,
\* no finalScore field.
NewGame == [sets |-> <<>>, status |-> "in-progress", finalScore |-> None]

\* The six starting players in rotation order.
FullLineup == [i \in 1..LineupSize |-> [number |-> i, rotationPosition |-> i]]

\* One call of updateGameSet(gameId, set): read the document, compute, write
\* the document, return the result.
CallUpdateGameSet(set) ==
  LET result == UpdateResult(db, set)
  IN /\ db' = UpdateDoc(db, result)
     /\ ret' = Some(result)
     /\ arg' = Some(set)
     /\ same' = (arg = Some(set))
     /\ UNCHANGED <<pending, statVars>>

\* Two clients (browser sessions) that have the same game open.
Clients == {"c1", "c2"}

\* A client's call of updateGameSet: not started ("idle"), between getDoc and
\* updateDoc ("read", with the argument and the document it read), or
\* returned ("done").
IdleCall == [pc |-> "idle", set |-> None, game |-> None]

\* ---------------------------------------------- direct calls of the export
\* A caller passes set numbers 1..FifthSet and the scores handleSetScore lets
\* through.
EngineScores(n) ==
  IF n >= FifthSet THEN {Score(15, 10), Score(10, 15)}
  ELSE {Score(25, 20), Score(20, 25)}

EngineInputs ==
  UNION {
    { [number |-> n, lineup |-> FullLineup, score |-> sc, substitutions |-> None] :
        sc \in {None} \cup {Some(x) : x \in EngineScores(n)} } : n \in 1..FifthSet }

\* ------------------------------------------------------------------ App
\* The roster of the selected game's team, players[selectedGame.teamId].
Roster == 1..RosterSize

NoModal == ~showLineupModal /\ ~showSetScoreModal /\ ~showSubstitutionModal

NoSubstitution ==
  [outPlayer |-> None, inPlayer |-> None, currentScore |-> Score(0, 0)]

\* The two reduce() calls of the lineup button's condition.
TeamSetsOf(sets) ==
  Cardinality({i \in 1..Len(sets) :
    IsSome(sets[i].score) /\ Get(sets[i].score).team > Get(sets[i].score).opponent})

OpponentSetsOf(sets) ==
  Cardinality({i \in 1..Len(sets) :
    IsSome(sets[i].score) /\ Get(sets[i].score).opponent > Get(sets[i].score).team})

\* Variant of LineupButtonShown that never offers the lineup of set 5.
LineupButtonShownBelowFour(game) ==
  /\ game.status = "in-progress"
  /\ Len(game.sets) < 4

\* Variant of LineupButtonShown that offers the lineup of set 5 after any
\* four sets.
LineupButtonShownAfterAnyFour(game) ==
  /\ game.status = "in-progress"
  /\ Len(game.sets) <= 4

\* The "Set n Lineup" button is rendered.
LineupButtonShown(game) ==
  /\ game.status = "in-progress"
  /\ \/ Len(game.sets) < 4
     \/ /\ Len(game.sets) = 4
        /\ TeamSetsOf(game.sets) = 2
        /\ OpponentSetsOf(game.sets) = 2

\* onClick of the lineup button.
OpenLineupModal ==
  /\ NoModal
  /\ LineupButtonShown(games)
  /\ selectedGame' = "g1"
  /\ currentSetNumber' = Len(games.sets) + 1
  /\ showLineupModal' = TRUE
  /\ op' = "ui"
  /\ UNCHANGED <<db, games, currentLineup, setScore, selectedSet, substitution,
                 showSetScoreModal, showSubstitutionModal, arg, ret, same, pending, statVars, cancels>>

\* onChange of the select of one rotation position.
SelectLineupPlayer(lineup, position, number) ==
  IF number \in Roster
    THEN LET entry == [number |-> number, rotationPosition |-> position]
             existingIndex ==
               IF \E i \in 1..Len(lineup) : lineup[i].rotationPosition = position
                 THEN CHOOSE i \in 1..Len(lineup) :
                        /\ lineup[i].rotationPosition = position
                        /\ \A j \in 1..(i - 1) : lineup[j].rotationPosition # position
                 ELSE 0
         IN IF existingIndex >= 1
              THEN [lineup EXCEPT ![existingIndex] = entry]
              ELSE Append(lineup, entry)
    ELSE lineup

\* The user picks choice[p] in the select of every position p, 1 to 6.
RECURSIVE SelectAll(_, _, _)
SelectAll(lineup, choice, upTo) ==
  IF upTo = 0 THEN lineup
  ELSE SelectLineupPlayer(SelectAll(lineup, choice, upTo - 1), upTo, choice[upTo])

\* Choices the user makes in the lineup dialog: shirt p at position p.
LineupInputs == {[p \in 1..LineupSize |-> p]}

FillLineup ==
  /\ showLineupModal
  /\ \E choice \in LineupInputs :
       currentLineup' = SelectAll(currentLineup, choice, LineupSize)
  /\ op' = "ui"
  /\ UNCHANGED <<db, games, selectedGame, currentSetNumber, setScore,
                 selectedSet, substitution, showLineupModal, showSetScoreModal,
                 showSubstitutionModal, arg, ret, same, pending, statVars, cancels>>

\* The game as handleSetLineup and handleSubstitution store it in the games
\* state: finalScore: result.finalScore || undefined.
LocalGame(result) ==
  [sets |-> result.sets, status |-> result.status,
   finalScore |-> result.finalScore]

HandleSetLineup ==
  /\ showLineupModal
  /\ IF selectedGame # "none" /\ Len(currentLineup) = LineupSize
       THEN LET newSet == [number |-> currentSetNumber,
                           lineup |-> currentLineup,
                           score |-> None,
                           substitutions |-> None]
            IN /\ CallUpdateGameSet(newSet)
               /\ games' = LocalGame(UpdateResult(db, newSet))
               /\ showLineupModal' = FALSE
               /\ currentLineup' = <<>>
               /\ op' = "handleSetLineup"
       ELSE /\ op' = "handleSetLineup.rejected"
            /\ UNCHANGED <<db, games, showLineupModal, currentLineup,
                           arg, ret, same, pending, statVars>>
  /\ UNCHANGED <<selectedGame, currentSetNumber, setScore, selectedSet,
                 substitution, showSetScoreModal, showSubstitutionModal,
                 cancels>>

\* onClick of Cancel or X in the lineup dialog.
CloseLineupModal ==
  /\ showLineupModal
  /\ cancels < MaxCancels
  /\ cancels' = cancels + 1
  /\ showLineupModal' = FALSE
  /\ op' = "ui"
  /\ UNCHANGED <<db, games, selectedGame, currentSetNumber, currentLineup,
                 setScore, selectedSet, substitution, showSetScoreModal,
                 showSubstitutionModal, arg, ret, same, pending, statVars>>

\* onClick of "Enter Score", rendered for a set without a score.
OpenSetScoreModal ==
  /\ NoModal
  /\ \E i \in 1..Len(games.sets) :
       /\ ~IsSome(games.sets[i].score)
       /\ currentSetNumber' = games.sets[i].number
  /\ selectedGame' = "g1"
  /\ showSetScoreModal' = TRUE
  /\ op' = "ui"
  /\ UNCHANGED <<db, games, currentLineup, setScore, selectedSet, substitution,
                 showLineupModal, showSubstitutionModal, arg, ret, same, pending, statVars, cancels>>

\* Scores the user types into the two inputs of the score dialog.
ScoreInputs == {Score(25, 15), Score(15, 25), Score(15, 15)}

\* onChange of the two score inputs.
TypeScore ==
  /\ showSetScoreModal
  /\ \E sc \in ScoreInputs : setScore' = sc
  /\ op' = "ui"
  /\ UNCHANGED <<db, games, selectedGame, currentSetNumber, currentLineup,
                 selectedSet, substitution, showLineupModal, showSetScoreModal,
                 showSubstitutionModal, arg, ret, same, pending, statVars, cancels>>

\* onClick of Cancel or X in the score dialog.
CloseSetScoreModal ==
  /\ showSetScoreModal
  /\ cancels < MaxCancels
  /\ cancels' = cancels + 1
  /\ showSetScoreModal' = FALSE
  /\ op' = "ui"
  /\ UNCHANGED <<db, games, selectedGame, currentSetNumber, currentLineup,
                 setScore, selectedSet, substitution, showLineupModal,
                 showSubstitutionModal, arg, ret, same, pending, statVars>>

Abs(x) == IF x < 0 THEN -x ELSE x

\* Variant of ValidateScore that asks 25 points of every set.
ValidateScoreOneThreshold(number, score) ==
  IF score.team < 0 \/ score.opponent < 0 THEN "negative"
  ELSE IF score.team < RegularThreshold /\ score.opponent < RegularThreshold
    THEN "threshold"
  ELSE IF Abs(score.team - score.opponent) < MinMargin THEN "margin"
  ELSE "ok"

\* Variant of ValidateScore without the margin check of sets 1 to 4.
ValidateScoreNoMargin(number, score) ==
  IF score.team < 0 \/ score.opponent < 0 THEN "negative"
  ELSE IF number <= 4
    THEN IF score.team < RegularThreshold /\ score.opponent < RegularThreshold
           THEN "threshold"
         ELSE "ok"
    ELSE IF score.team < FifthThreshold /\ score.opponent < FifthThreshold
           THEN "threshold"
         ELSE IF Abs(score.team - score.opponent) < MinMargin THEN "margin"
         ELSE "ok"

\* The checks handleSetScore makes before it calls updateGameSet: "ok" or
\* the reason of the alert.
ValidateScore(number, score) ==
  IF score.team < 0 \/ score.opponent < 0 THEN "negative"
  ELSE IF number <= 4
    THEN IF score.team < RegularThreshold /\ score.opponent < RegularThreshold
           THEN "threshold"
         ELSE IF Abs(score.team - score.opponent) < MinMargin THEN "margin"
         ELSE "ok"
    ELSE IF score.team < FifthThreshold /\ score.opponent < FifthThreshold
           THEN "threshold"
         ELSE IF Abs(score.team - score.opponent) < MinMargin THEN "margin"
         ELSE "ok"

\* "Game status logic" of handleSetScore: the status and finalScore it puts
\* into the games state.
LocalOutcome(number, score, setsWon) ==
  IF number = 4
    THEN IF setsWon.team = 2 /\ setsWon.opponent = 2
           THEN [status |-> "in-progress", finalScore |-> None]
           ELSE [status |-> IF setsWon.team > setsWon.opponent
                              THEN "win" ELSE "loss",
                 finalScore |-> Some(setsWon)]
  ELSE IF number = 5
    THEN [status |-> IF score.team > score.opponent THEN "win" ELSE "loss",
          finalScore |->
            Some(Score(setsWon.team +
                         (IF score.team > score.opponent THEN 1 ELSE 0),
                       setsWon.opponent +
                         (IF score.opponent > score.team THEN 1 ELSE 0)))]
  ELSE [status |-> "in-progress", finalScore |-> None]

\* The set number handleSetScore leaves in currentSetNumber.
NextSetNumber(number, outcome, setsWon) ==
  IF outcome.status = "in-progress"
    THEN IF number = 4 /\ setsWon.team = 2 /\ setsWon.opponent = 2 THEN 5
         ELSE IF number < 4 THEN number + 1
         ELSE number
    ELSE number

HandleSetScore ==
  /\ showSetScoreModal
  /\ selectedGame # "none"
  /\ IF ValidateScore(currentSetNumber, setScore) = "ok"
       THEN LET newSet == [number |-> currentSetNumber,
                           lineup |-> currentLineup,
                           score |-> Some(setScore),
                           substitutions |-> None]
                result == UpdateResult(db, newSet)
                setsWon == SetsWon(result.sets)
                outcome == LocalOutcome(currentSetNumber, setScore, setsWon)
            IN /\ CallUpdateGameSet(newSet)
               /\ games' = [sets |-> result.sets,
                            status |-> outcome.status,
                            finalScore |-> outcome.finalScore]
               /\ showSetScoreModal' = FALSE
               /\ setScore' = Score(0, 0)
               /\ currentSetNumber' =
                    NextSetNumber(currentSetNumber, outcome, setsWon)
               /\ op' = "handleSetScore"
       ELSE /\ op' = "handleSetScore.rejected"
            /\ UNCHANGED <<db, games, showSetScoreModal, setScore,
                           currentSetNumber, arg, ret, same, pending, statVars>>
  /\ UNCHANGED <<selectedGame, currentLineup, selectedSet, substitution,
                 showLineupModal, showSubstitutionModal, cancels>>

\* Number of substitution events the game holds.
RECURSIVE TotalSubstitutions(_)
TotalSubstitutions(sets) ==
  IF sets = <<>> THEN 0
  ELSE TotalSubstitutions(SubSeq(sets, 1, Len(sets) - 1))
       + Len(sets[Len(sets)].substitutions)

\* Variant of AtSubstitutionCap that compares with 7 in place of 6.
AtSubstitutionCapSeven(set) == Len(set.substitutions) >= MaxSubstitutions + 1

\* (set.substitutions?.length || 0) >= 6, the condition that disables the
\* button of the set and that hides the selects of the dialog.
AtSubstitutionCap(set) == Len(set.substitutions) >= MaxSubstitutions

\* onClick of the "Make Substitution" button of a set, disabled at 6 events.
OpenSubstitution ==
  /\ NoModal
  /\ \E i \in 1..Len(games.sets) :
       /\ ~AtSubstitutionCap(games.sets[i])
       /\ selectedSet' = Some(games.sets[i])
  /\ selectedGame' = "g1"
  /\ showSubstitutionModal' = TRUE
  /\ op' = "ui"
  /\ UNCHANGED <<db, games, currentSetNumber, currentLineup, setScore,
                 substitution, showLineupModal, showSetScoreModal,
                 arg, ret, same, pending, statVars, cancels>>

\* The same click while the match holds fewer than MaxSubs events.
OpenSubstitutionModal ==
  /\ TotalSubstitutions(games.sets) < MaxSubs
  /\ OpenSubstitution

\* The two selects are rendered: the dialog is open on a set below the cap.
SubstitutionSelectsShown ==
  /\ showSubstitutionModal
  /\ IsSome(selectedSet)
  /\ selectedGame # "none"
  /\ ~AtSubstitutionCap(Get(selectedSet))

\* selectedSet.lineup.find(p => p.number === value)
FindInLineup(lineup, number) ==
  IF \E i \in 1..Len(lineup) : lineup[i].number = number
    THEN Some(lineup[CHOOSE i \in 1..Len(lineup) :
                       /\ lineup[i].number = number
                       /\ \A j \in 1..(i - 1) : lineup[j].number # number])
    ELSE None

\* Rotation positions whose player the user picks in the "Player Out" select.
OutInputs == {1}

\* onChange of "Player Out": an option of the set's lineup.
SelectOutPlayer ==
  /\ SubstitutionSelectsShown
  /\ \E i \in 1..Len(Get(selectedSet).lineup) :
       /\ Get(selectedSet).lineup[i].rotationPosition \in OutInputs
       /\ substitution' =
            [substitution EXCEPT !.outPlayer =
               FindInLineup(Get(selectedSet).lineup,
                            Get(selectedSet).lineup[i].number)]
  /\ op' = "ui"
  /\ UNCHANGED <<db, games, selectedGame, currentSetNumber, currentLineup,
                 setScore, selectedSet, showLineupModal, showSetScoreModal,
                 showSubstitutionModal, arg, ret, same, pending, statVars, cancels>>

\* Shirt numbers the user picks in the "Player In" select.
InInputs == {1, 2, RosterSize}

\* onChange of "Player In": an option is a roster player not in the lineup.
SelectInPlayer ==
  /\ SubstitutionSelectsShown
  /\ \E number \in Roster \cap InInputs :
       /\ ~\E i \in 1..Len(Get(selectedSet).lineup) :
             Get(selectedSet).lineup[i].number = number
       /\ substitution' =
            [substitution EXCEPT !.inPlayer =
               Some([number |-> number,
                     rotationPosition |->
                       IF IsSome(substitution.outPlayer)
                         THEN Get(substitution.outPlayer).rotationPosition
                         ELSE 0])]
  /\ op' = "ui"
  /\ UNCHANGED <<db, games, selectedGame, currentSetNumber, currentLineup,
                 setScore, selectedSet, showLineupModal, showSetScoreModal,
                 showSubstitutionModal, arg, ret, same, pending, statVars, cancels>>

\* onClick of Cancel or X in the substitution dialog.
CloseSubstitutionModal ==
  /\ showSubstitutionModal
  /\ cancels < MaxCancels
  /\ cancels' = cancels + 1
  /\ showSubstitutionModal' = FALSE
  /\ op' = "ui"
  /\ UNCHANGED <<db, games, selectedGame, currentSetNumber, currentLineup,
                 setScore, selectedSet, substitution, showLineupModal,
                 showSetScoreModal, arg, ret, same, pending, statVars>>

\* The lineup of updatedSet: the entry with the outgoing player's number is
\* replaced by the incoming player at the entry's rotation position.
SubstituteLineup(lineup, outPlayer, inPlayer) ==
  [i \in 1..Len(lineup) |->
     IF lineup[i].number = outPlayer.number
       THEN [number |-> inPlayer.number,
             rotationPosition |-> lineup[i].rotationPosition]
       ELSE lineup[i]]

\* Variant of SubstitutedSet that sends the set without its score.
SubstitutedSetWithoutScore(set, sub) ==
  [number |-> set.number,
   lineup |-> SubstituteLineup(set.lineup, Get(sub.outPlayer), Get(sub.inPlayer)),
   score |-> None,
   substitutions |->
     Some(Append(set.substitutions,
                 [outPlayer |-> Get(sub.outPlayer),
                  inPlayer |-> Get(sub.inPlayer),
                  currentScore |-> sub.currentScore]))]

\* Variant of SubstitutedSet that puts the new event first.
SubstitutedSetPrepend(set, sub) ==
  [number |-> set.number,
   lineup |-> SubstituteLineup(set.lineup, Get(sub.outPlayer), Get(sub.inPlayer)),
   score |-> set.score,
   substitutions |->
     Some(<<[outPlayer |-> Get(sub.outPlayer),
             inPlayer |-> Get(sub.inPlayer),
             currentScore |-> sub.currentScore]>> \o set.substitutions)]

\* updatedSet of handleSubstitution.
SubstitutedSet(set, sub) ==
  [number |-> set.number,
   lineup |-> SubstituteLineup(set.lineup, Get(sub.outPlayer), Get(sub.inPlayer)),
   score |-> set.score,
   substitutions |->
     Some(Append(set.substitutions,
                 [outPlayer |-> Get(sub.outPlayer),
                  inPlayer |-> Get(sub.inPlayer),
                  currentScore |-> sub.currentScore]))]

\* onClick of "Make Substitution", enabled when both players are selected.
HandleSubstitution ==
  /\ showSubstitutionModal
  /\ selectedGame # "none"
  /\ IsSome(selectedSet)
  /\ IsSome(substitution.outPlayer)
  /\ IsSome(substitution.inPlayer)
  /\ LET updatedSet == SubstitutedSet(Get(selectedSet), substitution)
     IN /\ CallUpdateGameSet(updatedSet)
        /\ games' = LocalGame(UpdateResult(db, updatedSet))
  /\ showSubstitutionModal' = FALSE
  /\ substitution' = NoSubstitution
  /\ op' = "handleSubstitution"
  /\ UNCHANGED <<selectedGame, currentSetNumber, currentLineup, setScore,
                 selectedSet, showLineupModal, showSetScoreModal, cancels>>

Init ==
  /\ db = NewGame
  /\ games = NewGame
  /\ selectedGame = "g1"
  /\ currentSetNumber = 1
  /\ currentLineup = <<>>
  /\ setScore = Score(0, 0)
  /\ selectedSet = None
  /\ substitution = NoSubstitution
  /\ showLineupModal = TRUE
  /\ showSetScoreModal = FALSE
  /\ showSubstitutionModal = FALSE
  /\ cancels = 0
  /\ op = "handleAddGame"
  /\ arg = None
  /\ ret = None
  /\ same = FALSE
  /\ pending = [c \in Clients |-> IdleCall]
  /\ teamGames = <<>>
  /\ streak = None

EngineCall ==
  \E set \in EngineInputs :
    /\ CallUpdateGameSet(set)
    /\ op' = "updateGameSet"
    /\ UNCHANGED <<appVars, cancels>>

EngineNext == EngineCall

SpecEngine == Init /\ [][EngineNext]_vars

\* The user works through the dialogs of one game.
Next ==
  \/ OpenLineupModal
  \/ FillLineup
  \/ HandleSetLineup
  \/ OpenSetScoreModal
  \/ TypeScore
  \/ HandleSetScore
  \/ OpenSubstitutionModal
  \/ SelectOutPlayer
  \/ SelectInPlayer
  \/ HandleSubstitution
  \/ CloseLineupModal
  \/ CloseSetScoreModal
  \/ CloseSubstitutionModal

Spec == Init /\ [][Next]_vars

\* The game after the lineup of set 1 was stored, and after its score was
\* stored as well.  handleSetScore stores currentLineup as the set's lineup:
\* the scored set holds six players when the user filled the lineup dialog
\* of set 2 and left it by Cancel before entering the score of set 1.
FirstSet(score) ==
  [number |-> 1, lineup |-> FullLineup, score |-> score, substitutions |-> <<>>]

GameWithFirstSet(score) ==
  [sets |-> <<FirstSet(score)>>, status |-> "in-progress", finalScore |-> None]

InitSubstitutions ==
  /\ \E score \in {None, Some(Score(25, 15))} :
       /\ db = GameWithFirstSet(score)
       /\ games = GameWithFirstSet(score)
       /\ currentLineup = IF IsSome(score) THEN FullLineup ELSE <<>>
       /\ currentSetNumber = IF IsSome(score) THEN 2 ELSE 1
  /\ selectedGame = "g1"
  /\ setScore = Score(0, 0)
  /\ selectedSet = None
  /\ substitution = NoSubstitution
  /\ showLineupModal = FALSE
  /\ showSetScoreModal = FALSE
  /\ showSubstitutionModal = FALSE
  /\ cancels = 0
  /\ op = "ui"
  /\ arg = None
  /\ ret = None
  /\ same = FALSE
  /\ pending = [c \in Clients |-> IdleCall]
  /\ teamGames = <<>>
  /\ streak = None

\* The user records substitutions in set 1, as many as the dialog lets him.
SubstitutionsNext ==
  \/ OpenSubstitution
  \/ SelectOutPlayer
  \/ SelectInPlayer
  \/ HandleSubstitution
  \/ CloseSubstitutionModal

SpecSubstitutions == InitSubstitutions /\ [][SubstitutionsNext]_vars

\* A set as handleSetLineup stores it, and as handleSetScore stores it when
\* currentLineup is empty.
LineupOnlySet(number) ==
  [number |-> number, lineup |-> FullLineup, score |-> None,
   substitutions |-> <<>>]

ScoredSet(number, score) ==
  [number |-> number, lineup |-> <<>>, score |-> Some(score),
   substitutions |-> <<>>]

\* The games the score dialog is opened on: the lineups of sets 1 to 4 are
\* stored and no score yet, or sets 1 to 4 stand 2-2 and the lineup of set 5
\* is stored.
FourOpenSets ==
  [sets |-> [n \in 1..4 |-> LineupOnlySet(n)],
   status |-> "in-progress", finalScore |-> None]

TwoAllBeforeFifth ==
  [sets |-> <<ScoredSet(1, Score(25, 15)), ScoredSet(2, Score(25, 15)),
              ScoredSet(3, Score(15, 25)), ScoredSet(4, Score(15, 25)),
              LineupOnlySet(5)>>,
   status |-> "in-progress", finalScore |-> None]

\* What the user can enter in one score input.
Points == (-1)..MaxPoints

\* The score dialog is open on a set without a score and the user has
\* entered the two numbers.
InitScoreDialog ==
  /\ \E number \in 1..FifthSet :
       /\ currentSetNumber = number
       /\ db = IF number = FifthSet THEN TwoAllBeforeFifth ELSE FourOpenSets
       /\ games = db
  /\ \E t \in Points, o \in Points : setScore = Score(t, o)
  /\ selectedGame = "g1"
  /\ currentLineup = <<>>
  /\ selectedSet = None
  /\ substitution = NoSubstitution
  /\ showLineupModal = FALSE
  /\ showSetScoreModal = TRUE
  /\ showSubstitutionModal = FALSE
  /\ cancels = 0
  /\ op = "ui"
  /\ arg = None
  /\ ret = None
  /\ same = FALSE
  /\ pending = [c \in Clients |-> IdleCall]
  /\ teamGames = <<>>
  /\ streak = None

\* onClick of "Save Score".
ScoreDialogNext == HandleSetScore

SpecScoreDialog == InitScoreDialog /\ [][ScoreDialogNext]_vars

\* onChange of one select of the lineup dialog: the user works down the six
\* selects, or changes a select already used, and picks any roster player.
ChooseLineupPlayer ==
  /\ showLineupModal
  /\ \E position \in 1..LineupSize, number \in Roster :
       /\ position <= Len(currentLineup) + 1
       /\ currentLineup' = SelectLineupPlayer(currentLineup, position, number)
  /\ op' = "ui"
  /\ UNCHANGED <<db, games, selectedGame, currentSetNumber, setScore,
                 selectedSet, substitution, showLineupModal, showSetScoreModal,
                 showSubstitutionModal, arg, ret, same, pending, statVars, cancels>>

\* The lineup dialog of set 1, opened by handleAddGame.
LineupDialogNext ==
  \/ ChooseLineupPlayer
  \/ HandleSetLineup

SpecLineupDialog == Init /\ [][LineupDialogNext]_vars

\* Sets two clients send at the same time: the lineup of set 1 or of set 2,
\* with or without a score.
ConcurrentInputs ==
  { [number |-> n, lineup |-> FullLineup, score |-> sc, substitutions |-> None] :
      n \in 1..ConcurrentSets, sc \in {None, Some(Score(25, 20))} }

\* getDoc of a client's one call: the document is read; the call has not
\* written yet.
ReadGame(c) ==
  /\ pending[c].pc = "idle"
  /\ \E set \in ConcurrentInputs :
       pending' = [pending EXCEPT ![c] =
                     [pc |-> "read", set |-> Some(set), game |-> Some(db)]]
  /\ op' = "getDoc"
  /\ UNCHANGED <<db, appVars, cancels, arg, ret, same, statVars>>

\* The rest of the call: the result is computed from the document read and
\* written by updateDoc, which is no transaction.
WriteGame(c) ==
  /\ pending[c].pc = "read"
  /\ LET set == Get(pending[c].set)
         result == UpdateResult(Get(pending[c].game), set)
     IN /\ db' = UpdateDoc(db, result)
        /\ ret' = Some(result)
        /\ arg' = Some(set)
        /\ same' = (arg = Some(set))
  /\ pending' = [pending EXCEPT ![c].pc = "done"]
  /\ op' = "updateDoc"
  /\ UNCHANGED <<appVars, cancels, statVars>>

ConcurrentNext ==
  \/ \E c \in Clients : ReadGame(c)
  \/ \E c \in Clients : WriteGame(c)

SpecConcurrent == Init /\ [][ConcurrentNext]_vars

\* The game after the lineups of sets 1 and 2 were stored and set 1 was
\* scored: set 1 with the empty lineup handleSetScore usually stores, or with
\* six players (see FirstSet).
GameWithTwoSets(keptLineup, score) ==
  [sets |-> <<IF keptLineup THEN FirstSet(Some(score))
                            ELSE ScoredSet(1, score),
              LineupOnlySet(2)>>,
   status |-> "in-progress", finalScore |-> None]

InitTwoSets ==
  /\ \E keptLineup \in BOOLEAN, score \in {Score(25, 15), Score(15, 25)} :
       /\ db = GameWithTwoSets(keptLineup, score)
       /\ games = GameWithTwoSets(keptLineup, score)
       /\ currentLineup = IF keptLineup THEN FullLineup ELSE <<>>
  /\ currentSetNumber = 2
  /\ selectedGame = "g1"
  /\ setScore = Score(0, 0)
  /\ selectedSet = None
  /\ substitution = NoSubstitution
  /\ showLineupModal = FALSE
  /\ showSetScoreModal = FALSE
  /\ showSubstitutionModal = FALSE
  /\ cancels = 0
  /\ op = "ui"
  /\ arg = None
  /\ ret = None
  /\ same = FALSE
  /\ pending = [c \in Clients |-> IdleCall]
  /\ teamGames = <<>>
  /\ streak = None

\* The user records up to MaxSubs substitutions in the two sets.
TwoSetsNext ==
  \/ OpenSubstitutionModal
  \/ SelectOutPlayer
  \/ SelectInPlayer
  \/ HandleSubstitution
  \/ CloseSubstitutionModal

SpecTwoSets == InitTwoSets /\ [][TwoSetsNext]_vars

\* The user submits lineups and enters scores, in any order the games list
\* offers, and may leave the two dialogs by Cancel.
ScoringNext ==
  \/ OpenLineupModal
  \/ FillLineup
  \/ HandleSetLineup
  \/ OpenSetScoreModal
  \/ TypeScore
  \/ HandleSetScore
  \/ CloseLineupModal
  \/ CloseSetScoreModal

SpecScoring == Init /\ [][ScoringNext]_vars

\* The user enters a score that handleSetScore accepts.
TypeValidScore ==
  /\ TypeScore
  /\ ValidateScore(currentSetNumber, setScore') = "ok"

\* The user performs every lineup submission and every score entry the games
\* list offers, with valid scores, and does not leave a dialog by Cancel.
FairNext ==
  \/ OpenLineupModal
  \/ FillLineup
  \/ HandleSetLineup
  \/ OpenSetScoreModal
  \/ TypeValidScore
  \/ HandleSetScore

\* FillLineup can change the state: the lineup dialog is open and a select
\* still has another player to take.
FillLineupEnabled ==
  /\ showLineupModal
  /\ \/ op # "ui"
     \/ \E choice \in LineupInputs :
          SelectAll(currentLineup, choice, LineupSize) # currentLineup

\* HandleSetLineup can change the state: the lineup dialog is open; a
\* complete lineup closes it, an incomplete one is turned down once.
HandleSetLineupEnabled ==
  /\ showLineupModal
  /\ \/ selectedGame # "none" /\ Len(currentLineup) = LineupSize
     \/ op # "handleSetLineup.rejected"

\* HandleSetScore can change the state: the score dialog is open; a valid
\* score closes it, an invalid one is turned down once.
HandleSetScoreEnabled ==
  /\ showSetScoreModal
  /\ selectedGame # "none"
  /\ \/ ValidateScore(currentSetNumber, setScore) = "ok"
     \/ op # "handleSetScore.rejected"

\* Weak fairness of every user action: a button that stays offered is
\* pressed, a dialog that stays open is filled in and saved.  For the three
\* handlers that compute the stored game, weak fairness is written out with
\* the state predicate that equals ENABLED <<A>>_vars.
SpecFair ==
  /\ Init
  /\ [][FairNext]_vars
  /\ WF_vars(OpenLineupModal)
  /\ WF_vars(OpenSetScoreModal)
  /\ WF_vars(TypeValidScore)
  /\ ([]<>(~FillLineupEnabled) \/ []<><<FillLineup>>_vars)
  /\ ([]<>(~HandleSetLineupEnabled) \/ []<><<HandleSetLineup>>_vars)
  /\ ([]<>(~HandleSetScoreEnabled) \/ []<><<HandleSetScore>>_vars)

\* ------------------------------------------------------------- StatsPage
\* calculateCurrentStreak(teamGames).  A game is its date, a day written
\* YYYY-MM-DD by handleAddGame and given here as its day number, and its
\* status.
GameStatuses == {"win", "loss", "in-progress"}

GameInputs == [date : 1..MaxDate, status : GameStatuses]

\* Lists of games of one team, in the order getAllGames delivered them.
TeamGamesInputs == UNION {[1..n -> GameInputs] : n \in 0..MaxGames}

\* new Date(game.date).getTime(): milliseconds of the day's midnight, UTC.
GetTime(date) == date * 86400000

\* .filter(game => game.status !== 'in-progress')
IsDecided(game) == game.status # "in-progress"

DecidedGames(list) == SelectSeq(list, IsDecided)

\* Place of game in a list sorted by (a, b) => time(b) - time(a): behind
\* every game that is not older, the sort being stable.
InsertByDate(sorted, game) ==
  LET ahead == Cardinality({i \in 1..Len(sorted) :
                 GetTime(sorted[i].date) >= GetTime(game.date)})
  IN SubSeq(sorted, 1, ahead) \o <<game>> \o SubSeq(sorted, ahead + 1, Len(sorted))

\* .sort((a, b) => new Date(b.date).getTime() - new Date(a.date).getTime())
RECURSIVE SortByDate(_)
SortByDate(list) ==
  IF list = <<>> THEN <<>>
  ELSE InsertByDate(SortByDate(SubSeq(list, 1, Len(list) - 1)), list[Len(list)])

\* The for loop: count of the games from index i on, up to the first game
\* whose status is not firstResult.
RECURSIVE CountFrom(_, _, _)
CountFrom(sortedGames, firstResult, i) ==
  IF i > Len(sortedGames) THEN 0
  ELSE IF sortedGames[i].status = firstResult
    THEN 1 + CountFrom(sortedGames, firstResult, i + 1)
  ELSE 0

\* Variant of CalculateCurrentStreak without the filter.
CalculateCurrentStreakUnfiltered(list) ==
  LET sortedGames == SortByDate(list)
  IN IF Len(sortedGames) = 0 THEN [count |-> 0, type |-> "none"]
     ELSE LET firstResult == sortedGames[1].status
          IN [count |-> 1 + CountFrom(sortedGames, firstResult, 2),
              type |-> firstResult]

CalculateCurrentStreak(list) ==
  LET sortedGames == SortByDate(DecidedGames(list))
  IN IF Len(sortedGames) = 0 THEN [count |-> 0, type |-> "none"]
     ELSE LET firstResult == sortedGames[1].status
          IN [count |-> 1 + CountFrom(sortedGames, firstResult, 2),
              type |-> firstResult]

\* The statistics page holds any list of games of the selected team.
InitStreak ==
  /\ db = NewGame
  /\ games = NewGame
  /\ selectedGame = "none"
  /\ currentSetNumber = 1
  /\ currentLineup = <<>>
  /\ setScore = Score(0, 0)
  /\ selectedSet = None
  /\ substitution = NoSubstitution
  /\ showLineupModal = FALSE
  /\ showSetScoreModal = FALSE
  /\ showSubstitutionModal = FALSE
  /\ cancels = 0
  /\ op = "none"
  /\ arg = None
  /\ ret = None
  /\ same = FALSE
  /\ pending = [c \in Clients |-> IdleCall]
  /\ teamGames \in TeamGamesInputs
  /\ streak = None

\* The page renders the streak card: const streak =
\* calculateCurrentStreak(teamGames).
RenderStreak ==
  /\ streak = None
  /\ streak' = Some(CalculateCurrentStreak(teamGames))
  /\ op' = "calculateCurrentStreak"
  /\ UNCHANGED <<db, appVars, cancels, pending, teamGames, arg, ret, same>>

StreakNext == RenderStreak

SpecStreak == InitStreak /\ [][StreakNext]_vars

\* --------------------------------------------------------------- properties
\* Vocabulary of the properties below.
Called == IsSome(ret)
Returned == Get(ret)
Argument == Get(arg)

ScoredIn(sets) == {i \in 1..Len(sets) : IsSome(sets[i].score)}
AllScored(sets) == ScoredIn(sets) = 1..Len(sets)
WonByTeam(sets) ==
  Cardinality({i \in ScoredIn(sets) :
                 Get(sets[i].score).team > Get(sets[i].score).opponent})
WonByOpponent(sets) ==
  Cardinality({i \in ScoredIn(sets) :
                 Get(sets[i].score).opponent > Get(sets[i].score).team})
NumbersOf(sets) == {sets[i].number : i \in 1..Len(sets)}
\* Sets 1 to 5 are held, sets 1 to 4 are scored two sets each.
SplitAfterFour(sets) ==
  /\ Len(sets) = 5
  /\ \A i \in 1..5 : sets[i].number = i
  /\ \A i \in 1..4 : IsSome(sets[i].score)
  /\ WonByTeam(SubSeq(sets, 1, 4)) = 2
  /\ WonByOpponent(SubSeq(sets, 1, 4)) = 2
\* The call gave set 5 a score.
FifthSetScored ==
  /\ Called
  /\ SplitAfterFour(Returned.sets)
  /\ Argument.number = 5
  /\ IsSome(Argument.score)

\* C1: when the merged collection is exactly 4 scored sets of which one side
\* won exactly 3, updateGameSet returns 'win' with finalScore 3-1 if that side
\* is the team and 'loss' with finalScore 1-3 if it is the opponent.
C1_ThreeOfFourDecides ==
  (Called /\ Len(Returned.sets) = 4 /\ AllScored(Returned.sets)) =>
    /\ WonByTeam(Returned.sets) = 3 =>
         (Returned.status = "win" /\ Returned.finalScore = Some(Score(3, 1)))
    /\ WonByOpponent(Returned.sets) = 3 =>
         (Returned.status = "loss" /\ Returned.finalScore = Some(Score(1, 3)))

C1_Witness ==
  /\ Called
  /\ Len(Returned.sets) = 4
  /\ AllScored(Returned.sets)
  /\ WonByOpponent(Returned.sets) = 3
  /\ Returned.status = "loss"

\* C2: when a scored fifth set decides a match that stood 2-2 after sets 1-4,
\* the returned finalScore is the tally of sets won over the five sets: 3-2
\* when the team won set 5, 2-3 when the opponent won it.
C2_FifthSetFinalScoreIsTally ==
  FifthSetScored =>
    Returned.finalScore =
      Some(Score(WonByTeam(Returned.sets), WonByOpponent(Returned.sets)))

\* C3: when sets 1-4 are scored 2-2 and the call gives set 5 a score, the
\* returned status is 'win' if the team won more of the five sets and 'loss'
\* if the opponent did, never 'in-progress'.
C3_FifthSetDecides ==
  FifthSetScored =>
    /\ Returned.status # "in-progress"
    /\ Returned.status =
         IF WonByTeam(Returned.sets) > WonByOpponent(Returned.sets)
           THEN "win" ELSE "loss"

C3_Witness ==
  /\ FifthSetScored
  /\ WonByOpponent(Returned.sets) = 3
  /\ Returned.status = "loss"

\* C4: when the merged collection is exactly 4 scored sets split 2-2, the
\* returned status is 'in-progress' and the returned finalScore is null.
C4_TwoTwoStaysOpen ==
  (/\ Called
   /\ Len(Returned.sets) = 4
   /\ AllScored(Returned.sets)
   /\ WonByTeam(Returned.sets) = 2
   /\ WonByOpponent(Returned.sets) = 2) =>
    (Returned.status = "in-progress" /\ Returned.finalScore = None)

C4_Witness ==
  /\ Called
  /\ Len(Returned.sets) = 4
  /\ AllScored(Returned.sets)
  /\ WonByTeam(Returned.sets) = 2
  /\ WonByOpponent(Returned.sets) = 2
  /\ Returned.status = "in-progress"

\* C5: when the merged collection holds fewer than 4 sets, the returned
\* status is 'in-progress' and finalScore is null, also when one side has won
\* all 3 scored sets.
C5_NeverDecidedBelowFour ==
  (Called /\ Len(Returned.sets) < 4) =>
    (Returned.status = "in-progress" /\ Returned.finalScore = None)

C5_Witness ==
  /\ Called
  /\ Len(Returned.sets) = 3
  /\ WonByTeam(Returned.sets) = 3
  /\ Returned.status = "in-progress"

\* C6: the returned status is 'in-progress' whenever fewer than 4 sets of the
\* merged collection have a score, whatever the number of sets held and
\* whichever set the call targets.
C6_OpenBelowFourScored ==
  (Called /\ Cardinality(ScoredIn(Returned.sets)) < 4) =>
    Returned.status = "in-progress"

\* C7: once updateGameSet has returned 'win' or 'loss', a later call that
\* adds a set with a new set number, scored or not, returns the same status
\* and the same finalScore.
C7_DecidedIsStable ==
  [][(/\ Called
      /\ Returned.status \in {"win", "loss"}
      /\ op' = "updateGameSet"
      /\ Get(arg').number \notin NumbersOf(db.sets)) =>
       (/\ Get(ret').status = Returned.status
        /\ Get(ret').finalScore = Returned.finalScore)]_vars

C9_ScoreKeepsSubstitutions ==
  [][op' = "handleSetScore" =>
       \A i \in 1..Len(db.sets) :
         (db.sets[i].number = currentSetNumber
            /\ db.sets[i].substitutions # <<>>) =>
           \E j \in 1..Len(db'.sets) :
             /\ db'.sets[j].number = currentSetNumber
             /\ db'.sets[j].substitutions = db.sets[i].substitutions]_vars

\* C10: the stored status and finalScore of the match after
\* handleSubstitution has stored a substitution equal those before it.
C10_SubstitutionKeepsOutcome ==
  [][op' = "handleSubstitution" =>
       (db'.status = db.status /\ db'.finalScore = db.finalScore)]_vars

\* The set of the stored game the substitution dialog is open on.
StoredSet(game, number) == game.sets[FindIndex(game.sets, number)]
TargetNumber == Get(selectedSet).number
InLineup(lineup, number) == \E i \in 1..Len(lineup) : lineup[i].number = number
\* Six pairwise distinct players in the rotation positions 1 to 6.
SixDistinct(lineup) ==
  /\ Len(lineup) = 6
  /\ \A i, j \in 1..6 : i # j => lineup[i].number # lineup[j].number
  /\ \A q \in 1..6 : \E i \in 1..6 : lineup[i].rotationPosition = q

\* C11: no stored set ever holds more than 6 substitution events, and no
\* step changes a stored set that holds 6 events, with or without a score:
\* a seventh substitution is not accepted.
C11_SubstitutionCap ==
  [][/\ \A i \in 1..Len(db'.sets) : Len(db'.sets[i].substitutions) <= 6
     /\ \A i \in 1..Len(db.sets) :
          Len(db.sets[i].substitutions) >= 6 =>
            (i <= Len(db'.sets) /\ db'.sets[i] = db.sets[i])]_vars

C11_Witness ==
  /\ Len(db.sets) = 1
  /\ IsSome(db.sets[1].score)
  /\ Len(db.sets[1].substitutions) = 6
  /\ op = "handleSubstitution"

\* C12: when handleSubstitution runs with an outgoing player who is not in
\* the lineup of the set the dialog is open on, the stored sets stay as they
\* are: no lineup entry changes and no event is appended.
C12_AbsentOutPlayerRejected ==
  [][(/\ op' = "handleSubstitution"
      /\ ~InLineup(StoredSet(db, TargetNumber).lineup,
                   Get(substitution.outPlayer).number)) =>
       db'.sets = db.sets]_vars

\* C13: a substitution on a set whose stored lineup is 6 distinct players in
\* positions 1 to 6 leaves a lineup of 6 distinct players in positions 1 to 6.
C13_LineupStaysDistinct ==
  [][(/\ op' = "handleSubstitution"
      /\ SixDistinct(StoredSet(db, TargetNumber).lineup)) =>
       SixDistinct(StoredSet(db', TargetNumber).lineup)]_vars

\* C14: a substitution of a player of the lineup by a player outside it, on
\* a lineup of 6 distinct players, replaces the outgoing player's entry by the
\* incoming player at that entry's rotation position, keeps the other five
\* entries, and appends the one event {outPlayer, inPlayer, currentScore}
\* after the events the set held.
C14_SubstitutionEffect ==
  [][(/\ op' = "handleSubstitution"
      /\ SixDistinct(StoredSet(db, TargetNumber).lineup)
      /\ InLineup(StoredSet(db, TargetNumber).lineup,
                  Get(substitution.outPlayer).number)
      /\ ~InLineup(StoredSet(db, TargetNumber).lineup,
                   Get(substitution.inPlayer).number)) =>
       LET old == StoredSet(db, TargetNumber)
           new == StoredSet(db', TargetNumber)
           out == Get(substitution.outPlayer)
           in == Get(substitution.inPlayer)
       IN /\ Len(new.lineup) = 6
          /\ \E k \in 1..6 :
               /\ old.lineup[k].number = out.number
               /\ new.lineup[k] =
                    [number |-> in.number,
                     rotationPosition |-> old.lineup[k].rotationPosition]
               /\ \A j \in 1..6 : j # k => new.lineup[j] = old.lineup[j]
          /\ new.substitutions =
               Append(old.substitutions,
                      [outPlayer |-> out, inPlayer |-> in,
                       currentScore |-> substitution.currentScore])]_vars

C14_Witness ==
  /\ op = "handleSubstitution"
  /\ Len(db.sets) = 1
  /\ Len(db.sets[1].substitutions) = 2
  /\ db.sets[1].substitutions[1] # db.sets[1].substitutions[2]
  /\ SixDistinct(db.sets[1].lineup)

\* The rule of the claims C15 and C16: one side has reached the threshold of
\* the set and the sides are at least 2 points apart.
Threshold(number) == IF number = 5 THEN 15 ELSE 25
ValidByRule(number, score) ==
  /\ (score.team >= Threshold(number) \/ score.opponent >= Threshold(number))
  /\ (score.team - score.opponent >= 2 \/ score.opponent - score.team >= 2)
NonNegative(score) == score.team >= 0 /\ score.opponent >= 0

\* C15: for sets 1 to 5 and non-negative points, handleSetScore accepts the
\* entered score (and calls updateGameSet with it) if and only if one side
\* has reached the threshold, 25 for sets 1-4 and 15 for set 5, and the
\* difference is at least 2.
C15_AcceptsIffValid ==
  [][(showSetScoreModal /\ NonNegative(setScore)) =>
       /\ ValidByRule(currentSetNumber, setScore) =>
            (/\ op' = "handleSetScore"
             /\ arg' = Some([number |-> currentSetNumber,
                             lineup |-> currentLineup,
                             score |-> Some(setScore),
                             substitutions |-> None]))
       /\ ~ValidByRule(currentSetNumber, setScore) =>
            (op' = "handleSetScore.rejected" /\ arg' = arg)]_vars

C15_Witness ==
  /\ op = "handleSetScore"
  /\ Called
  /\ Argument.number = 5
  /\ Argument.score = Some(Score(13, 15))

\* C16: when the entered score breaks the rule (threshold not reached,
\* margin below 2 or a negative value), the click on Save Score leaves the
\* stored game (sets, status, finalScore) and the games state as they were.
C16_RejectedChangesNothing ==
  [][(/\ showSetScoreModal
      /\ (~NonNegative(setScore)
           \/ ~ValidByRule(currentSetNumber, setScore))) =>
       (db' = db /\ games' = games /\ ret' = ret)]_vars

C16_Witness ==
  /\ op = "handleSetScore.rejected"
  /\ currentSetNumber = 1
  /\ setScore = Score(24, 22)
  /\ db = FourOpenSets
  /\ games = FourOpenSets

\* C17: handleSetLineup stores a set only when currentLineup is exactly 6
\* players with pairwise different shirt numbers; otherwise the stored game
\* stays as it is.
C17_OnlySixDistinctStored ==
  [][(showLineupModal /\ db' # db) =>
       (/\ Len(currentLineup) = 6
        /\ \A i, j \in 1..Len(currentLineup) :
             i # j => currentLineup[i].number # currentLineup[j].number)]_vars

\* C18: when the calls of both clients have returned, for two different set
\* numbers, the stored collection holds both sets as they were sent and the
\* stored status is the one computed from that collection.
C18_OverlappingCallsSerialize ==
  (/\ \A c \in Clients : pending[c].pc = "done"
   /\ \A c, d \in Clients :
        c # d => Get(pending[c].set).number # Get(pending[d].set).number) =>
    /\ \A c \in Clients :
         \E i \in 1..Len(db.sets) :
           db.sets[i] = SanitizeSet(Get(pending[c].set))
    /\ db.status = DetermineOutcome(db.sets, db.sets[1]).status

\* C19: a call that leaves the merged collection as it was (it sends a set
\* the collection already holds) returns the status and the finalScore of
\* the call before it: both are determined by the collection, not by the set
\* that was updated last.
C19_StatusFromCollectionAlone ==
  [][(Called /\ op' = "updateGameSet" /\ Get(ret').sets = Returned.sets) =>
       (/\ Get(ret').status = Returned.status
        /\ Get(ret').finalScore = Returned.finalScore)]_vars

\* C20: the finalScore updateGameSet returns is null exactly when the status
\* it returns is 'in-progress', and so non-null exactly for 'win' and 'loss'.
C20_FinalScoreIffDecided ==
  Called =>
    /\ Returned.status \in {"in-progress", "win", "loss"}
    /\ (Returned.finalScore = None) <=> (Returned.status = "in-progress")

C20_Witness ==
  /\ Called
  /\ Returned.status = "loss"
  /\ Returned.finalScore = Some(Score(3, 3))

\* C21: after every updateGameSet call the returned and the stored
\* collection are in strictly ascending set-number order, so no two sets
\* share a number; an update of a number the collection holds replaces that
\* entry.
C21_SortedUniqueNumbers ==
  /\ \A i \in 1..(Len(db.sets) - 1) : db.sets[i].number < db.sets[i + 1].number
  /\ Called =>
       /\ Returned.sets = db.sets
       /\ \E i \in 1..Len(db.sets) : db.sets[i] = SanitizeSet(Argument)

C21_Witness ==
  /\ Called
  /\ same = FALSE
  /\ Len(db.sets) = 5
  /\ Argument.number = 3
  /\ IsSome(Argument.score)

\* C22: every stored set has a lineup of exactly 6 entries whose rotation
\* positions are 1 to 6, after any sequence of lineup, score and substitution
\* operations: entering a score keeps the lineup handleSetLineup stored.
C22_LineupKeptInEverySet ==
  \A i \in 1..Len(db.sets) :
    /\ Len(db.sets[i].lineup) = 6
    /\ \A q \in 1..6 :
         \E k \in 1..6 : db.sets[i].lineup[k].rotationPosition = q

\* C23: while sets 1-4 are stored with scores that make 2-2 and set 5 is
\* absent or has no score, the stored status is 'in-progress'.
C23_OpenUntilFifthScored ==
  (/\ Len(db.sets) >= 4
   /\ \A i \in 1..4 : db.sets[i].number = i /\ IsSome(db.sets[i].score)
   /\ WonByTeam(SubSeq(db.sets, 1, 4)) = 2
   /\ WonByOpponent(SubSeq(db.sets, 1, 4)) = 2
   /\ \A i \in 5..Len(db.sets) : ~IsSome(db.sets[i].score)) =>
    db.status = "in-progress"

\* C24: after every accepted handleSetScore the status and finalScore put
\* into the games state are those updateGameSet returned and stored.
C24_LocalOutcomeIsStored ==
  [][op' = "handleSetScore" =>
       (/\ games'.status = Get(ret').status
        /\ games'.finalScore = Get(ret').finalScore
        /\ games'.status = db'.status)]_vars

\* C26: a returned 'win' comes with a finalScore in which the team has more
\* sets than the opponent, a returned 'loss' with one in which the opponent
\* has more.
C26_FinalScoreAgreesWithStatus ==
  Called =>
    /\ Returned.status = "win" =>
         Get(Returned.finalScore).team > Get(Returned.finalScore).opponent
    /\ Returned.status = "loss" =>
         Get(Returned.finalScore).opponent > Get(Returned.finalScore).team

\* C27: the stored document never has status 'in-progress' together with a
\* finalScore.
C27_NoFinalScoreWhileOpen ==
  db.status = "in-progress" => db.finalScore = None

\* C25: the stored match never holds more than 5 sets; a lineup is stored by
\* handleSetLineup only for a set number 1 to 5 and while the status, stored
\* and in the games state, is 'in-progress'; the lineup of set 5 only when
\* the match holds exactly 4 sets that stand 2-2.
C25_FifthSetOnlyAfterTwoAll ==
  [][/\ Len(db'.sets) <= 5
     /\ op' = "handleSetLineup" =>
          /\ currentSetNumber \in 1..5
          /\ currentSetNumber = Len(db.sets) + 1
          /\ db.status = "in-progress"
          /\ games.status = "in-progress"
          /\ currentSetNumber = 5 =>
               /\ Len(db.sets) = 4
               /\ WonByTeam(db.sets) = 2
               /\ WonByOpponent(db.sets) = 2]_vars

C25_Witness ==
  /\ op = "handleSetLineup"
  /\ Len(db.sets) = 5
  /\ db.sets[5].number = 5
  /\ db.status = "in-progress"

\* C28: a substitution leaves the number and the score of the set it is made
\* on, and every other stored set of the match, as they were.
C28_SubstitutionFrame ==
  [][op' = "handleSubstitution" =>
       /\ Len(db'.sets) = Len(db.sets)
       /\ \A i \in 1..Len(db.sets) :
            /\ db'.sets[i].number = db.sets[i].number
            /\ db'.sets[i].score = db.sets[i].score
            /\ db.sets[i].number # TargetNumber => db'.sets[i] = db.sets[i]]_vars

C28_Witness ==
  /\ op = "handleSubstitution"
  /\ Len(db.sets) = 2
  /\ IsSome(db.sets[1].score)
  /\ Len(db.sets[1].substitutions) = 1
  /\ db.sets[2] = LineupOnlySet(2)

\* C29: when the user performs every lineup submission and score entry the
\* UI offers, with valid scores, the stored status eventually is 'win' or
\* 'loss' with at most five sets, in whatever order the sets are scored.
C29_EventuallyDecided ==
  <>(db.status \in {"win", "loss"} /\ Len(db.sets) <= FifthSet)

C29_Witness ==
  /\ db.status = "win"
  /\ Len(db.sets) = 5
  /\ AllScored(db.sets)
  /\ op = "handleSetScore"

\* Indices of the decided games of the list.
DecidedIn(list) == {i \in 1..Len(list) : list[i].status # "in-progress"}

\* The orders of the decided games from the most recent backwards by date;
\* games of the same day may come in either order.
RecentFirstOrders(list) ==
  {o \in [1..Cardinality(DecidedIn(list)) -> DecidedIn(list)] :
     /\ \A a, b \in DOMAIN o : a # b => o[a] # o[b]
     /\ \A a, b \in DOMAIN o : a < b => list[o[a]].date >= list[o[b]].date}

====
